---- MODULE Spec2Model ----
(***************************************************************************)
(* Calendar-Optimizer: the slot searches of the calendar route (the route  *)
(* in use and the five variants kept in src/app/api/calendar/route.js) and *)
(* of CalendarService, as one state machine, together with the session     *)
(* test of the handlers, the jwt and session callbacks of the two NextAuth *)
(* configurations and handleSubmit of the page.                            *)
(*                                                                         *)
(* Time is an instant counted in whole minutes from Monday 2024-12-23      *)
(* 00:00 UTC.  A timezone is its UTC offset in minutes (no DST change      *)
(* falls into the modelled weeks).  Wall-clock fields of an instant t in a *)
(* zone tz are read from t + tz.                                           *)
(***************************************************************************)
EXTENDS Integers, Sequences, FiniteSets, TLC

VARIABLES
  req,            \* the request: impl, serverTz, userTz, now, searchRange, duration,
                  \* noFridays, daysToCheck
  busyPeriods,    \* busy periods of the free/busy answer, sorted by start
  allDayEvents,   \* all-day events of the events.list answer (variants 1 and 2)
  timeMin,        \* search window start
  timeMax,        \* search window end
  currentTime,    \* loop variable of the search
  prevTime,       \* currentTime at the start of the previous iteration (None before it)
  lastStep,       \* what the previous iteration did: "none", "accept", "busy", "hours", ...
  availableSlots, \* slots accepted so far, in the order pushed
  response,       \* the suggestions sent back (None until the handler returns)
  rerun,          \* what a second call of scoreAndSortSlots on the same list returned
  session,        \* what getServerSession returns; what the session callback built
  credentials,    \* what the handler gave to oauth2Client.setCredentials
  token,          \* the JWT the jwt callback returned last
  authNow,        \* Date.now() of the auth callbacks, in milliseconds
  lastJwt,        \* the last jwt call: the return taken, the token tested, the reply
  page,           \* the page: attendees, loading, error, results, place in handleSubmit
  pc              \* "start", "loop", "done", "failed", "unauthorized", "signedIn"

authVars == <<token, authNow, lastJwt>>

vars == <<req, busyPeriods, allDayEvents, timeMin, timeMax, currentTime, prevTime,
          lastStep, availableSlots, response, rerun, session, credentials, authVars,
          page, pc>>

\* "no instant": earlier than every instant of the model
None == 0 - 365 * 1440

(***************************************************************************)
(* Bounds of the model.                                                    *)
(***************************************************************************)
MaxBusy == 2          \* at most this many busy periods in one free/busy answer
MaxSortLen == 3       \* longest slot list handed directly to scoreAndSortSlots
MaxAuthClock == 4     \* seconds the auth clock runs

(***************************************************************************)
(* JavaScript arithmetic.                                                  *)
(***************************************************************************)
\* a % b of JavaScript: the sign follows the dividend
JsRem(a, b) == IF a >= 0 THEN a % b ELSE 0 - ((0 - a) % b)

\* ToIntegerOrInfinity of a value given in sixtieths: truncation toward zero
TruncHours(m) == IF m >= 0 THEN m \div 60 ELSE 0 - ((0 - m) \div 60)

Min(a, b) == IF a <= b THEN a ELSE b

(***************************************************************************)
(* Date and date-fns operations; tz is the zone the process runs in.       *)
(***************************************************************************)
getHours(t, tz) == ((t + tz) % 1440) \div 60
getMinutes(t, tz) == (t + tz) % 60
\* 0 = Sunday ... 6 = Saturday; day 0 of the model is a Monday
getDay(t, tz) == (((t + tz) \div 1440) + 1) % 7
startOfDay(t, tz) == t - ((t + tz) % 1440)
\* 23:59:59.999 local, at the model's minute resolution
endOfDay(t, tz) == startOfDay(t, tz) + 1439
isWeekend(t, tz) == getDay(t, tz) \in {0, 6}
isSameDay(a, b, tz) == ((a + tz) \div 1440) = ((b + tz) \div 1440)
addMinutes(t, n) == t + n
addDays(t, n) == t + n * 1440
addWeeks(t, n) == addDays(t, 7 * n)
\* setMinutes(setHours(d, h), 0)
setHoursMinutes0(t, h, tz) == startOfDay(t, tz) + h * 60
\* Date.prototype.setHours(h, 0, 0, 0)
setHours0(t, h, tz) == startOfDay(t, tz) + h * 60
\* Date.prototype.setUTCHours(h, 0, 0, 0); h is given in minutes and truncated
\* to whole hours, a negative hour reaches into the previous UTC day
setUTCHours0(t, hMin) == startOfDay(t, 0) + TruncHours(hMin) * 60
\* isWithinInterval: both ends included
isWithinInterval(t, s, e) == t >= s /\ t <= e

\* First local day of Nov 2024 .. May 2025, as day numbers of the model
MonthStart == <<-52, -22, 9, 40, 68, 99, 129>>
MonthIndex(d) == CHOOSE i \in 1..6 : MonthStart[i] <= d /\ d < MonthStart[i + 1]
\* addMonths: same day of month and time of day n months on, clamped to the
\* last day of a shorter month
addMonths(t, n, tz) ==
  LET d == (t + tz) \div 1440
      i == MonthIndex(d)
      dom == d - MonthStart[i]
      len == MonthStart[i + n + 1] - MonthStart[i + n]
      d2 == MonthStart[i + n] + Min(dom, len - 1)
  IN  t + (d2 - d) * 1440

\* new Date().toLocaleString('en-US', {timeZone}): the wall-clock fields in zone
toLocaleString(t, zone) == t + zone
\* new Date(string): the fields are read as local time of the process
parseLocal(wall, tz) == wall - tz

\* new Date('2024-12-25') is midnight UTC; the other holidays of the list lie
\* before the modelled weeks
usHolidays2024 == {2 * 1440}

(***************************************************************************)
(* Requests.  The wall-clock values are read in the zone the variant       *)
(* takes its business hours in (RefTz), so that every variant meets the    *)
(* same local situations.                                                  *)
(***************************************************************************)
Impls == {"route", "v1", "v2", "v3", "v4", "v5", "svc", "sort"}

\* <<serverTz, userTz>>: UTC server with a UTC, Chicago, Kolkata or Sydney
\* user; a development machine in Chicago
TzPairs == {<<0, 0>>, <<0, 0 - 360>>, <<0, 330>>, <<0, 600>>, <<0 - 360, 0 - 360>>}

UsesUserTz(impl) == impl \in {"route", "v3", "svc", "sort"}

RefTz(r) == IF UsesUserTz(r.impl) THEN r.userTz ELSE r.serverTz

\* Mon 08:00, Mon 10:15, Tue 12:45, Wed 10:00 (the holiday), Thu 16:00,
\* Fri 18:00 (wall clock)
NowWalls == {480, 615, 1440 + 765, 2 * 1440 + 600, 3 * 1440 + 960, 4 * 1440 + 1080}

\* the ranges the page offers; variants 2, 3 and 5 also know 'hour'
SearchRanges == {"day", "week", "month", "hour"}

\* the durations the page offers; variant 2 reads the duration as the length of
\* a period: '1440' (a day), '10080' (a week), '43200' (a month)
Durations == {15, 30, 60}
PeriodDurations == {1440, 10080, 43200}
\* durations a client may also send: zero and a negative number of minutes
InvalidDurations == {0, 0 - 30}

\* daysToCheck of findOptimalMeetingTimes (10 when the caller leaves it out)
DaysToCheck == {1, 3}

RangesOf(impl) ==
  IF impl \in {"v2", "v3", "v5"} THEN SearchRanges ELSE SearchRanges \ {"hour"}

DurationsOf(impl) ==
  IF impl = "v2" THEN {30} \cup PeriodDurations
  ELSE IF impl \in {"route", "v3", "v4"} THEN Durations \cup InvalidDurations
  ELSE Durations

Requests ==
  { r \in [impl : Impls, serverTz : {0, 0 - 360}, userTz : {0 - 360, 0, 330, 600},
           now : {w - z : w \in NowWalls, z \in {0 - 360, 0, 330, 600}},
           searchRange : SearchRanges,
           duration : Durations \cup PeriodDurations \cup InvalidDurations,
           noFridays : BOOLEAN, daysToCheck : DaysToCheck \cup {10}] :
      /\ (r.impl = "svc" => r.daysToCheck \in DaysToCheck /\ r.searchRange = "day"
                               /\ ~r.noFridays)
      /\ (r.impl = "sort" => r.daysToCheck = 10 /\ r.searchRange = "day" /\ ~r.noFridays
                              /\ r.duration = 30)
      /\ (r.impl \notin {"svc", "sort"} => r.daysToCheck = 10)
      /\ r.searchRange \in RangesOf(r.impl)
      /\ r.duration \in DurationsOf(r.impl)
      /\ <<r.serverTz, r.userTz>> \in TzPairs
      /\ (~UsesUserTz(r.impl) => r.userTz = r.serverTz)
      /\ (r.now + RefTz(r)) \in NowWalls }

\* Busy periods on the Monday, as wall-clock minutes: 09:00-10:00, 10:30-11:00
\* (leaving the gap 10:00-10:30), 11:15-11:45 (inside 11:00-12:00), 16:00-17:30
BusyPool == << [start |-> 540, end |-> 600], [start |-> 630, end |-> 660],
               [start |-> 675, end |-> 705], [start |-> 960, end |-> 1050] >>

SubSeqOf(pool, S) ==
  LET F[i \in 0..Len(pool)] ==
        IF i = 0 THEN << >>
        ELSE IF i \in S THEN Append(F[i - 1], pool[i]) ELSE F[i - 1]
  IN  F[Len(pool)]

\* The free/busy answers considered for a request: any MaxBusy of the pool when
\* the search starts on the Monday, none otherwise
BusyAnswers(r) ==
  IF r.now + RefTz(r) < 1440
  THEN { [i \in 1..Len(SubSeqOf(BusyPool, S)) |->
            [start |-> SubSeqOf(BusyPool, S)[i].start - RefTz(r),
             end |-> SubSeqOf(BusyPool, S)[i].end - RefTz(r)]] :
           S \in {T \in SUBSET (1..Len(BusyPool)) : Cardinality(T) <= MaxBusy} }
  ELSE { << >> }

\* The events.list answers considered (variants 1 and 2 read them): none, or
\* one all-day event on Tuesday 2024-12-24 (start.date 12-24, end.date 12-25)
AllDayAnswers(r) ==
  IF r.impl \in {"v1", "v2"} /\ r.now + RefTz(r) < 2 * 1440
  THEN { {}, {[startDate |-> 1, endDate |-> 2]} }
  ELSE { {} }

BUSINESS_START_HOUR == 9
BUSINESS_END_HOUR == 17

Slot(s, e) == [start |-> s, end |-> e]

(***************************************************************************)
(* Sign-in state: the token and session callbacks of the NextAuth options  *)
(* the calendar route imports (api/auth/[...nextauth]/route.js) and of     *)
(* authOptions.js.  The auth clock is Date.now() in milliseconds; the      *)
(* provider counts lifetimes in seconds.                                   *)
(***************************************************************************)
\* the value of a property that was never set
Undefined == "undefined"

\* an expiry that is not a number (undefined, or NaN after arithmetic on it)
NoExpiry == 0 - 1

\* o.f of JavaScript: undefined when the object has no such property
Field(o, f) == IF f \in DOMAIN o THEN o[f] ELSE Undefined

\* a ?? b
Coalesce(a, b) == IF a = Undefined THEN b ELSE a

\* null: no session, no account
Null == [null |-> TRUE]

\* the token NextAuth hands to the first jwt call of a sign-in
NewToken ==
  [sub |-> "user", accessToken |-> Undefined, refreshToken |-> Undefined,
   accessTokenExpires |-> NoExpiry, idToken |-> Undefined, error |-> Undefined]

\* lifetimes the provider grants, in seconds
Lifetimes == {1, 2}

\* the account of a sign-in at auth clock now; the provider may withhold the
\* refresh token
Accounts(now) ==
  { [access_token |-> "at0", refresh_token |-> rt, id_token |-> "id0",
     expires_in |-> life, expires_at |-> now \div 1000 + life] :
      rt \in {"rt0", Undefined}, life \in Lifetimes }

\* what the token endpoint answers to a refresh request: the fetch is rejected,
\* the body is not JSON, the status is not ok, or new tokens arrive (with or
\* without a new refresh token)
Replies ==
  { [outcome |-> o, access_token |-> "at1", expires_in |-> life, refresh_token |-> rt,
     id_token |-> Undefined] :
      o \in {"ok"}, life \in Lifetimes, rt \in {"rt1", Undefined} }
  \cup { [outcome |-> o, access_token |-> Undefined, expires_in |-> 1,
          refresh_token |-> Undefined, id_token |-> Undefined] :
           o \in {"rejected", "badJson", "notOk"} }

\* if (account) { ... } of route.js
ApplyAccount(tok, account) ==
  IF account = Null THEN tok
  ELSE [tok EXCEPT !.accessToken = account.access_token,
                   !.refreshToken = account.refresh_token,
                   !.accessTokenExpires = account.expires_at * 1000]

\* a jwt callback whose refresh takes the reply's refresh token as it comes
jwtWithoutFallback(tok, account, now, reply) ==
  LET t == ApplyAccount(tok, account)
  IN  IF t.accessTokenExpires # NoExpiry /\ t.accessTokenExpires # 0
         /\ now > t.accessTokenExpires
      THEN IF reply.outcome = "ok"
           THEN [kind |-> "refreshed", checked |-> t,
                 token |-> [t EXCEPT !.accessToken = reply.access_token,
                                     !.accessTokenExpires = now + reply.expires_in * 1000,
                                     !.refreshToken = reply.refresh_token]]
           ELSE [kind |-> "failed", checked |-> t,
                 token |-> [t EXCEPT !.error = "RefreshAccessTokenError"]]
      ELSE [kind |-> "kept", checked |-> t, token |-> t]

\* callbacks.jwt of route.js: kind tells which return was taken, checked is the
\* token the expiry test read
jwt(tok, account, now, reply) ==
  LET t == ApplyAccount(tok, account)
  IN  IF t.accessTokenExpires # NoExpiry /\ t.accessTokenExpires # 0
         /\ now > t.accessTokenExpires
      THEN IF reply.outcome = "ok"
           THEN [kind |-> "refreshed", checked |-> t,
                 token |-> [t EXCEPT !.accessToken = reply.access_token,
                                     !.accessTokenExpires = now + reply.expires_in * 1000,
                                     !.refreshToken =
                                        Coalesce(reply.refresh_token, t.refreshToken)]]
           ELSE [kind |-> "failed", checked |-> t,
                 token |-> [t EXCEPT !.error = "RefreshAccessTokenError"]]
      ELSE [kind |-> "kept", checked |-> t, token |-> t]

\* callbacks.session of route.js, on the session NextAuth passes in
DefaultSession == [user |-> [name |-> "n"]]

\* a session callback that hands the refresh token on as well
sessionCallbackWithRefreshToken(sess, tok) ==
  [user |-> [name |-> sess.user.name, id |-> tok.sub],
   accessToken |-> tok.accessToken, error |-> tok.error,
   refreshToken |-> tok.refreshToken]

sessionCallback(sess, tok) ==
  [user |-> [name |-> sess.user.name, id |-> tok.sub],
   accessToken |-> tok.accessToken, error |-> tok.error]

\* a refresh without its catch block: a failure leaves the function as an
\* exception
refreshAccessTokenUncaught(tok, now, reply) ==
  IF reply.outcome = "ok"
  THEN [kind |-> "refreshed",
        token |-> [tok EXCEPT !.accessToken = reply.access_token,
                              !.accessTokenExpires = now + reply.expires_in * 1000,
                              !.refreshToken = Coalesce(reply.refresh_token, tok.refreshToken),
                              !.idToken = Coalesce(reply.id_token, tok.idToken)]]
  ELSE [kind |-> "threw", token |-> tok]

\* refreshAccessToken of authOptions.js
refreshAccessToken(tok, now, reply) ==
  IF reply.outcome = "ok"
  THEN [kind |-> "refreshed",
        token |-> [tok EXCEPT !.accessToken = reply.access_token,
                              !.accessTokenExpires = now + reply.expires_in * 1000,
                              !.refreshToken = Coalesce(reply.refresh_token, tok.refreshToken),
                              !.idToken = Coalesce(reply.id_token, tok.idToken)]]
  ELSE [kind |-> "failed", token |-> [tok EXCEPT !.error = "RefreshAccessTokenError"]]

\* callbacks.jwt of authOptions.js
authOptionsJwt(tok, account, now, reply) ==
  LET t == IF account = Null THEN tok
           ELSE [tok EXCEPT !.accessToken = account.access_token,
                            !.refreshToken = account.refresh_token,
                            !.accessTokenExpires = now + account.expires_in * 1000,
                            !.idToken = account.id_token]
  IN  IF t.accessTokenExpires # NoExpiry /\ now < t.accessTokenExpires
      THEN [kind |-> "kept", checked |-> t, token |-> t]
      ELSE LET r == refreshAccessToken(t, now, reply)
           IN  [kind |-> r.kind, checked |-> t, token |-> r.token]

\* callbacks.session of authOptions.js
authOptionsSession(sess, tok) ==
  [user |-> sess.user, accessToken |-> tok.accessToken, idToken |-> tok.idToken,
   userId |-> tok.sub]

\* the token after a sign-in at auth clock 0
SignedInToken ==
  jwt(NewToken, CHOOSE a \in Accounts(0) : a.refresh_token = "rt0" /\ a.expires_in = 1,
      0, CHOOSE r \in Replies : r.outcome = "rejected").token

\* what getServerSession(authOptions) can return to a calendar handler: null,
\* the session of a token without an access token, the session of a sign-in
HandlerSessions ==
  {Null, sessionCallback(DefaultSession, NewToken),
   sessionCallback(DefaultSession, SignedInToken)}

\* !session?.accessToken is false
HasAccessToken(sess) == Field(sess, "accessToken") # Undefined

\* oauth2Client.setCredentials({ access_token, refresh_token }) from the session
setCredentials(sess) ==
  [access_token |-> Field(sess, "accessToken"), refresh_token |-> Field(sess, "refreshToken")]

(***************************************************************************)
(* The page (src/unnamed/part_003): handleSubmit.                          *)
(***************************************************************************)
MaxAttendeesLen == 3   \* longest text typed into the attendees field

\* the characters of the attendees field: of an address, or a separator
Separators == {",", " "}
AttendeeTexts == UNION { [1..n -> {"a"} \cup Separators] : n \in 0..MaxAttendeesLen }

\* attendees.split(/[,;\s\n]+/): the pieces between runs of separators, the
\* empty pieces at the ends included
RECURSIVE split(_)
split(s) ==
  LET seps == {i \in 1..Len(s) : s[i] \in Separators}
  IN  IF seps = {} THEN <<s>>
      ELSE LET k == CHOOSE i \in seps : \A j \in seps : i <= j
               after == {i \in (k + 1)..Len(s) : s[i] \notin Separators}
               m == IF after = {} THEN Len(s) + 1
                    ELSE CHOOSE i \in after : \A j \in after : i <= j
           IN  <<SubSeq(s, 1, k - 1)>> \o split(SubSeq(s, m, Len(s)))

\* .map(email => email.trim()).filter(email => email.length > 0)
emailList(attendees) == SelectSeq(split(attendees), LAMBDA e : Len(e) > 0)

\* how the fetch of /api/calendar ends
FetchOutcomes == {"rejected", "httpError", "unparsable", "errorField", "success"}

\* error holds the pieces of the message shown, empty for no message
IdlePage(text) ==
  [attendees |-> text, loading |-> FALSE, error |-> << >>, results |-> "none",
   at |-> "idle", fetched |-> FALSE, outcome |-> "none"]

\* handleSubmit from its first line to the return of the empty list or to the
\* await of the fetch
handleSubmitBegin(p) ==
  IF Len(emailList(p.attendees)) = 0
  THEN [p EXCEPT !.loading = FALSE, !.error = <<"Please enter at least one email address">>,
                 !.at = "returned", !.fetched = FALSE, !.outcome = "empty"]
  ELSE [p EXCEPT !.loading = TRUE, !.error = << >>, !.at = "awaiting", !.fetched = TRUE,
                 !.outcome = "none"]

\* error.message of what the try block throws on each path
ErrorMessage(outcome) ==
  CASE outcome = "rejected" -> "Failed to fetch"
    [] outcome = "httpError" -> "HTTP error!"
    [] outcome = "unparsable" -> "Invalid response format from server"
    [] OTHER -> "data.error"

\* the rest of handleSubmit without its finally block
handleSubmitRestNoFinally(p, outcome) ==
  IF outcome = "success"
  THEN [p EXCEPT !.results = "suggestions", !.error = << >>, !.loading = FALSE,
                 !.at = "returned", !.outcome = outcome]
  ELSE [p EXCEPT !.error = <<"Error: ", ErrorMessage(outcome)>>, !.at = "returned", !.outcome = outcome]

\* the rest of handleSubmit, once the fetch has settled: the try block to its
\* end or to a throw, the catch block, the finally block
handleSubmitRest(p, outcome) ==
  IF outcome = "success"
  THEN [p EXCEPT !.results = "suggestions", !.error = << >>, !.loading = FALSE,
                 !.at = "returned", !.outcome = outcome]
  ELSE [p EXCEPT !.error = <<"Error: ", ErrorMessage(outcome)>>, !.loading = FALSE, !.at = "returned",
                 !.outcome = outcome]

\* the handlers that test the session for an access token (variant 1 leaves
\* its session validation out)
CheckedImpls == {"route", "v2", "v3", "v4", "v5"}

\* the two NextAuth configurations and the page, each run on its own
AuthImpls == {"nextauth", "authOptions"}
OtherRequests ==
  { [impl |-> i, serverTz |-> 0, userTz |-> 0, now |-> 480, searchRange |-> "day",
     duration |-> 30, noFridays |-> FALSE, daysToCheck |-> 10] :
      i \in AuthImpls \cup {"page"} }

\* the reply recorded for a jwt call that asked the token endpoint nothing
NoReply == CHOOSE r \in Replies : r.outcome = "rejected"

Init ==
  /\ req \in Requests \cup OtherRequests
  /\ busyPeriods = << >>
  /\ allDayEvents = {}
  /\ timeMin = None
  /\ timeMax = None
  /\ currentTime = None
  /\ prevTime = None
  /\ lastStep = "none"
  /\ availableSlots = << >>
  /\ response = [status |-> 0, suggestions |-> << >>]
  /\ rerun = [ran |-> FALSE, suggestions |-> << >>]
  /\ session \in (IF req.impl \in CheckedImpls THEN HandlerSessions
                  ELSE IF req.impl = "v1" THEN {sessionCallback(DefaultSession, SignedInToken)}
                  ELSE {Null})
  /\ credentials = [unset |-> TRUE]
  /\ token = NewToken
  /\ authNow = 0
  /\ lastJwt = [kind |-> "none", checked |-> NewToken, now |-> 0, reply |-> NoReply]
  /\ page \in (IF req.impl = "page" THEN {IdlePage(t) : t \in AttendeeTexts}
               ELSE {IdlePage(<< >>)})
  /\ pc = "start"

(***************************************************************************)
(* The route in use (src/unnamed/part_002).                                *)
(***************************************************************************)
RouteTimeMax(tMin, range, tz) ==
  CASE range = "day" -> addDays(tMin, 1)
    [] range = "week" -> addWeeks(tMin, 1)
    [] range = "month" -> addMonths(tMin, 1, tz)
    [] OTHER -> addDays(tMin, 1)

\* the overlap test of the route: start inside, end inside, or containing
RouteOverlap(slotStart, slotEnd, busy) ==
  \/ (slotStart >= busy.start /\ slotStart < busy.end)
  \/ (slotEnd > busy.start /\ slotEnd <= busy.end)
  \/ (slotStart <= busy.start /\ slotEnd >= busy.end)

\* the filter chain of one iteration: the first check that rejects, or "accept"
RouteFilter(r, busy, t) ==
  LET slotStart == t
      slotEnd == t + r.duration
      slotStartInTz == parseLocal(toLocaleString(slotStart, r.userTz), r.serverTz)
      slotEndInTz == parseLocal(toLocaleString(slotEnd, r.userTz), r.serverTz)
      slotStartHours == getHours(slotStartInTz, r.serverTz)
      slotEndHours == getHours(slotEndInTz, r.serverTz)
      slotEndMinutes == getMinutes(slotEndInTz, r.serverTz)
  IN  IF slotStartHours < 9 \/ slotEndHours > 17 \/ (slotEndHours = 17 /\ slotEndMinutes > 0)
        THEN "hours"
      ELSE IF isWeekend(slotStart, r.serverTz) THEN "weekend"
      ELSE IF \E h \in usHolidays2024 : isSameDay(slotStart, h, r.serverTz) THEN "holiday"
      ELSE IF r.noFridays /\ getDay(slotStart, r.serverTz) = 5 THEN "friday"
      ELSE IF \E i \in 1..Len(busy) : RouteOverlap(slotStart, slotEnd, busy[i]) THEN "busy"
      ELSE "accept"

\* the route going on to the query without testing the session
RouteStartUnchecked ==
  /\ pc = "start" /\ req.impl = "route"
  /\ credentials' = setCredentials(session)
  /\ timeMin' = req.now
  /\ timeMax' = RouteTimeMax(req.now, req.searchRange, req.serverTz)
  /\ busyPeriods' \in BusyAnswers(req)
  /\ currentTime' = req.now
  /\ pc' = "loop"
  /\ UNCHANGED <<req, rerun, session, authVars, page, allDayEvents, prevTime, lastStep, availableSlots, response>>

RouteStart ==
  /\ pc = "start" /\ req.impl = "route"
  /\ HasAccessToken(session)
  /\ credentials' = setCredentials(session)
  /\ timeMin' = req.now
  /\ timeMax' = RouteTimeMax(req.now, req.searchRange, req.serverTz)
  /\ busyPeriods' \in BusyAnswers(req)
  /\ currentTime' = req.now
  /\ pc' = "loop"
  /\ UNCHANGED <<req, rerun, session, authVars, page, allDayEvents, prevTime, lastStep, availableSlots, response>>

\* the loop of the route stepping by an hour instead of stepSize
RouteStepHourly ==
  /\ pc = "loop" /\ req.impl = "route"
  /\ currentTime < timeMax /\ Len(availableSlots) < 10
  /\ LET verdict == RouteFilter(req, busyPeriods, currentTime)
     IN  /\ availableSlots' =
               IF verdict = "accept"
               THEN Append(availableSlots, Slot(currentTime, currentTime + req.duration))
               ELSE availableSlots
         /\ lastStep' = verdict
  /\ prevTime' = currentTime
  /\ currentTime' = currentTime + 60
  /\ UNCHANGED <<req, rerun, session, credentials, authVars, page, busyPeriods, allDayEvents, timeMin, timeMax, response, pc>>

RouteStep ==
  /\ pc = "loop" /\ req.impl = "route"
  /\ currentTime < timeMax /\ Len(availableSlots) < 10
  /\ LET verdict == RouteFilter(req, busyPeriods, currentTime)
     IN  /\ availableSlots' =
               IF verdict = "accept"
               THEN Append(availableSlots, Slot(currentTime, currentTime + req.duration))
               ELSE availableSlots
         /\ lastStep' = verdict
  /\ prevTime' = currentTime
  /\ currentTime' = currentTime + 30
  /\ UNCHANGED <<req, rerun, session, credentials, authVars, page, busyPeriods, allDayEvents, timeMin, timeMax, response, pc>>

\* the route answering an empty search like a failure
RouteDoneEmptyIsError ==
  /\ pc = "loop" /\ req.impl = "route"
  /\ ~(currentTime < timeMax /\ Len(availableSlots) < 10)
  /\ response' = IF availableSlots = << >>
                 THEN [status |-> 500, error |-> "Failed to process request"]
                 ELSE [status |-> 200, suggestions |-> availableSlots]
  /\ pc' = "done"
  /\ UNCHANGED <<req, rerun, session, credentials, authVars, page, busyPeriods, allDayEvents, timeMin, timeMax, currentTime, prevTime,
                 lastStep, availableSlots>>

RouteDone ==
  /\ pc = "loop" /\ req.impl = "route"
  /\ ~(currentTime < timeMax /\ Len(availableSlots) < 10)
  /\ response' = [status |-> 200, suggestions |-> availableSlots]
  /\ pc' = "done"
  /\ UNCHANGED <<req, rerun, session, credentials, authVars, page, busyPeriods, allDayEvents, timeMin, timeMax, currentTime, prevTime,
                 lastStep, availableSlots>>

\* calendar.freebusy.query rejects: the catch block answers 500 with an error
\* and no suggestions
RouteFail ==
  /\ pc = "start" /\ req.impl = "route"
  /\ HasAccessToken(session)
  /\ credentials' = setCredentials(session)
  /\ timeMin' = req.now
  /\ timeMax' = RouteTimeMax(req.now, req.searchRange, req.serverTz)
  /\ response' = [status |-> 500, error |-> "Failed to process request"]
  /\ pc' = "failed"
  /\ UNCHANGED <<req, rerun, session, authVars, page, busyPeriods, allDayEvents, currentTime, prevTime, lastStep,
                 availableSlots>>

(***************************************************************************)
(* Variant 1 (route.js 1-173): rounded start, all-day events, step search. *)
(***************************************************************************)
\* Math.ceil(minutes / 30) * 30, then setMinutes (60 rolls into the next hour)
V1RoundUp(now, tz) ==
  LET m == getMinutes(now, tz)
      nextSlotMinutes == ((m + 29) \div 30) * 30
  IN  now - m + nextSlotMinutes

V1TimeMin(now, tz) ==
  LET t == V1RoundUp(now, tz)
  IN  IF getHours(t, tz) >= 17 \/ getHours(t, tz) < 9
      THEN setHours0(addDays(t, 1), 9, tz)
      ELSE t

V1TimeMax(tMin, range, tz) ==
  CASE range = "day" -> addDays(startOfDay(tMin, tz), 1)
    [] range = "week" -> addWeeks(startOfDay(tMin, tz), 1)
    [] range = "month" -> addMonths(startOfDay(tMin, tz), 1, tz)
    [] OTHER -> addDays(startOfDay(tMin, tz), 1)

\* new Date(event.start.date): midnight UTC of the date
V1AllDay(events) ==
  { [start |-> e.startDate * 1440, end |-> e.endDate * 1440] : e \in events }

V1Filter(r, busy, events, t) ==
  LET slotStart == t
      slotEnd == t + r.duration
      tz == r.serverTz
      hour == getHours(slotStart, tz)
  IN  IF hour < 9 \/ hour >= 17 THEN "hours"
      ELSE IF getHours(slotEnd, tz) >= 17 THEN "hours"
      ELSE IF isWeekend(slotStart, tz) THEN "weekend"
      ELSE IF \E h \in usHolidays2024 : isSameDay(slotStart, h, tz) THEN "holiday"
      ELSE IF r.noFridays /\ getDay(slotStart, tz) = 5 THEN "friday"
      ELSE IF \E e \in events :
                 slotStart >= startOfDay(e.start, tz) /\ slotStart < endOfDay(e.end, tz)
        THEN "allday"
      ELSE IF \E i \in 1..Len(busy) : RouteOverlap(slotStart, slotEnd, busy[i]) THEN "busy"
      ELSE "accept"

V1Start ==
  /\ pc = "start" /\ req.impl = "v1"
  /\ timeMin' = V1TimeMin(req.now, req.serverTz)
  /\ timeMax' = V1TimeMax(timeMin', req.searchRange, req.serverTz)
  /\ \E ev \in AllDayAnswers(req) : allDayEvents' = V1AllDay(ev)
  /\ busyPeriods' \in BusyAnswers(req)
  /\ currentTime' = timeMin'
  /\ pc' = "loop"
  /\ UNCHANGED <<req, rerun, session, credentials, authVars, page, prevTime, lastStep, availableSlots, response>>

V1Step ==
  /\ pc = "loop" /\ req.impl = "v1"
  /\ currentTime < timeMax /\ Len(availableSlots) < 10
  /\ LET verdict == V1Filter(req, busyPeriods, allDayEvents, currentTime)
     IN  /\ availableSlots' =
               IF verdict = "accept"
               THEN Append(availableSlots, Slot(currentTime, currentTime + req.duration))
               ELSE availableSlots
         /\ lastStep' = verdict
  /\ prevTime' = currentTime
  /\ currentTime' = currentTime + 30
  /\ UNCHANGED <<req, rerun, session, credentials, authVars, page, busyPeriods, allDayEvents, timeMin, timeMax, response, pc>>

V1Done ==
  /\ pc = "loop" /\ req.impl = "v1"
  /\ ~(currentTime < timeMax /\ Len(availableSlots) < 10)
  /\ response' = [status |-> 200, suggestions |-> availableSlots]
  /\ pc' = "done"
  /\ UNCHANGED <<req, rerun, session, credentials, authVars, page, busyPeriods, allDayEvents, timeMin, timeMax, currentTime, prevTime,
                 lastStep, availableSlots>>

(***************************************************************************)
(* Variant 2 (route.js 175-450): whole-day slots, jumps between days.      *)
(***************************************************************************)
MAX_SUGGESTIONS_V2 == 10

IsHoliday(t, tz) == \E h \in usHolidays2024 : isSameDay(t, h, tz)

RECURSIVE V2SkipDays(_, _)
\* while (isWeekend(nextDay) || holiday(nextDay)) nextDay = addDays(nextDay, 1)
V2SkipDays(nextDay, tz) ==
  IF isWeekend(nextDay, tz) \/ IsHoliday(nextDay, tz)
  THEN V2SkipDays(addDays(nextDay, 1), tz)
  ELSE nextDay

V2getNextBusinessDayStart(date, tz) ==
  LET day0 == startOfDay(date, tz)
      nextDay == IF getHours(date, tz) >= BUSINESS_END_HOUR THEN addDays(day0, 1) ELSE day0
  IN  setHoursMinutes0(V2SkipDays(nextDay, tz), BUSINESS_START_HOUR, tz)

\* durationType is the request's duration; the cases are the strings '1440',
\* '10080', '43200', every other value takes the default
calculateEndDate(startDate, durationType, tz) ==
  CASE durationType = 1440 -> endOfDay(startDate, tz)
    [] durationType = 10080 -> endOfDay(addDays(startDate, 6), tz)
    [] durationType = 43200 -> endOfDay(addMonths(startDate, 1, tz), tz)
    [] OTHER -> endOfDay(startDate, tz)

\* differenceInDays: whole days from start to end (end is not before start here)
differenceInDays(end, start) == (end - start) \div 1440

includesHolidaysOrWeekends(start, end, tz) ==
  \E i \in 0..differenceInDays(end, start) :
    isWeekend(addDays(start, i), tz) \/ IsHoliday(addDays(start, i), tz)

\* { '1440': 1440, '10080': 10080, '43200': 43200 }[durationStr] || 1440
V2Duration(durationStr) == IF durationStr \in PeriodDurations THEN durationStr ELSE 1440

V2TimeMax(tMin, range, tz) ==
  CASE range = "hour" -> addDays(tMin, 7)
    [] range = "week" -> addMonths(tMin, 1, tz)
    [] range = "month" -> addMonths(tMin, 3, tz)
    [] OTHER -> addMonths(tMin, 1, tz)

\* parseISO(event.start.date): local midnight of the date
V2AllDay(events, tz) ==
  { [start |-> e.startDate * 1440 - tz, end |-> e.endDate * 1440 - tz] : e \in events }

V2Conflict(t, slotEnd, busy) ==
  \/ isWithinInterval(t, busy.start, busy.end)
  \/ isWithinInterval(slotEnd, busy.start, busy.end)
  \/ (t <= busy.start /\ slotEnd >= busy.end)

V2Filter(r, busy, events, t) ==
  LET tz == r.serverTz
      slotEnd == calculateEndDate(t, r.duration, tz)
  IN  IF V2Duration(r.duration) >= 1440 /\ includesHolidaysOrWeekends(t, slotEnd, tz)
        THEN "span"
      ELSE IF r.noFridays /\ getDay(t, tz) = 5 THEN "friday"
      ELSE IF \E e \in events :
                 \/ isWithinInterval(t, startOfDay(e.start, tz), endOfDay(e.end, tz))
                 \/ isWithinInterval(slotEnd, startOfDay(e.start, tz), endOfDay(e.end, tz))
        THEN "allday"
      ELSE IF \E i \in 1..Len(busy) : V2Conflict(t, slotEnd, busy[i]) THEN "busy"
      ELSE "accept"

\* busyPeriods.find(...): the first period, in start order, that holds
\* currentTime or starts at or after it
V2ConflictingPeriod(t, busy) ==
  LET hit(i) == isWithinInterval(t, busy[i].start, busy[i].end) \/ t <= busy[i].start
      I == {i \in 1..Len(busy) : hit(i)}
  IN  IF I = {} THEN 0 ELSE CHOOSE i \in I : \A j \in I : i <= j

V2NextTime(r, busy, t, verdict) ==
  LET tz == r.serverTz
      c == V2ConflictingPeriod(t, busy)
  IN  CASE verdict = "friday" -> V2getNextBusinessDayStart(addDays(t, 3), tz)
        [] verdict = "busy" ->
             IF c # 0 THEN V2getNextBusinessDayStart(busy[c].end, tz)
             ELSE V2getNextBusinessDayStart(addDays(t, 1), tz)
        [] OTHER -> V2getNextBusinessDayStart(addDays(t, 1), tz)

V2Start ==
  /\ pc = "start" /\ req.impl = "v2"
  /\ HasAccessToken(session)
  /\ credentials' = setCredentials(session)
  /\ timeMin' = V2getNextBusinessDayStart(req.now, req.serverTz)
  /\ timeMax' = V2TimeMax(timeMin', req.searchRange, req.serverTz)
  /\ \E ev \in AllDayAnswers(req) : allDayEvents' = V2AllDay(ev, req.serverTz)
  /\ busyPeriods' \in BusyAnswers(req)
  /\ currentTime' = timeMin'
  /\ pc' = "loop"
  /\ UNCHANGED <<req, rerun, session, authVars, page, prevTime, lastStep, availableSlots, response>>

V2Step ==
  /\ pc = "loop" /\ req.impl = "v2"
  /\ Len(availableSlots) < MAX_SUGGESTIONS_V2 /\ currentTime < timeMax
  /\ LET verdict == V2Filter(req, busyPeriods, allDayEvents, currentTime)
     IN  /\ availableSlots' =
               IF verdict = "accept"
               THEN Append(availableSlots,
                      Slot(currentTime, calculateEndDate(currentTime, req.duration, req.serverTz)))
               ELSE availableSlots
         /\ lastStep' = verdict
         /\ currentTime' = V2NextTime(req, busyPeriods, currentTime, verdict)
  /\ prevTime' = currentTime
  /\ UNCHANGED <<req, rerun, session, credentials, authVars, page, busyPeriods, allDayEvents, timeMin, timeMax, response, pc>>

V2Done ==
  /\ pc = "loop" /\ req.impl = "v2"
  /\ ~(Len(availableSlots) < MAX_SUGGESTIONS_V2 /\ currentTime < timeMax)
  /\ response' = [status |-> 200, suggestions |-> availableSlots]
  /\ pc' = "done"
  /\ UNCHANGED <<req, rerun, session, credentials, authVars, page, busyPeriods, allDayEvents, timeMin, timeMax, currentTime, prevTime,
                 lastStep, availableSlots>>

(***************************************************************************)
(* Variant 3 (route.js 452-667): business hours through UTC hours.         *)
(***************************************************************************)
MAX_SUGGESTIONS_V3 == 5

\* (tzDate - utcDate) / (60 * 60 * 1000), kept in minutes: both strings are read
\* back as local time of the process, so the difference is the zone's offset
getTimezoneOffset(timezone, tz) ==
  parseLocal(toLocaleString(0, timezone), tz) - parseLocal(toLocaleString(0, 0), tz)

\* (localHour - offset) % 24, kept in minutes
localToUTCHour(localHour, timezone, tz) ==
  JsRem(localHour * 60 - getTimezoneOffset(timezone, tz), 24 * 60)

getBusinessDayStart(date, timezone, tz) ==
  setUTCHours0(startOfDay(date, tz), localToUTCHour(BUSINESS_START_HOUR, timezone, tz))

\* durationMap[duration] || 30
DurationMap(duration) == IF duration \in {15, 30, 60} THEN duration ELSE 30

V3TimeMin(r) ==
  IF getHours(r.now, r.serverTz) >= BUSINESS_END_HOUR
  THEN getBusinessDayStart(addDays(r.now, 1), r.userTz, r.serverTz)
  ELSE getBusinessDayStart(r.now, r.userTz, r.serverTz)

V3TimeMax(tMin, range, tz) ==
  CASE range = "hour" -> addDays(tMin, 1)
    [] range = "week" -> addWeeks(tMin, 1)
    [] range = "month" -> addMonths(tMin, 1, tz)
    [] OTHER -> addDays(tMin, 1)

\* toLocaleString('en-US', {hour: 'numeric', hour12: false, timeZone}): the
\* local hour; midnight is printed as 24
V3LocalHour(t, timezone) ==
  LET h == getHours(toLocaleString(t, timezone), 0) IN IF h = 0 THEN 24 ELSE h

V3Conflict(t, slotEnd, busy) ==
  \/ isWithinInterval(t, busy.start, busy.end)
  \/ isWithinInterval(slotEnd, busy.start, busy.end)

V3Filter(r, busy, t) ==
  LET slotEnd == t + DurationMap(r.duration)
      localHour == V3LocalHour(t, r.userTz)
  IN  IF localHour < BUSINESS_START_HOUR \/ localHour >= BUSINESS_END_HOUR THEN "hours"
      ELSE IF isWeekend(t, r.serverTz) THEN "weekend"
      ELSE IF r.noFridays /\ getDay(t, r.serverTz) = 5 THEN "friday"
      ELSE IF \E i \in 1..Len(busy) : V3Conflict(t, slotEnd, busy[i]) THEN "busy"
      ELSE "accept"

V3NextTime(r, t, verdict) ==
  LET startHourUTC == localToUTCHour(BUSINESS_START_HOUR, r.userTz, r.serverTz)
  IN  CASE verdict = "hours" -> addDays(setUTCHours0(t, startHourUTC), 1)
        [] verdict = "weekend" ->
             setUTCHours0(addDays(t, IF getDay(t, r.serverTz) = 6 THEN 2 ELSE 1), startHourUTC)
        [] verdict = "friday" -> setUTCHours0(addDays(t, 3), startHourUTC)
        [] OTHER -> t + DurationMap(r.duration)

V3Start ==
  /\ pc = "start" /\ req.impl = "v3"
  /\ HasAccessToken(session)
  /\ credentials' = setCredentials(session)
  /\ timeMin' = V3TimeMin(req)
  /\ timeMax' = V3TimeMax(timeMin', req.searchRange, req.serverTz)
  /\ busyPeriods' \in BusyAnswers(req)
  /\ currentTime' = timeMin'
  /\ pc' = "loop"
  /\ UNCHANGED <<req, rerun, session, authVars, page, allDayEvents, prevTime, lastStep, availableSlots, response>>

\* the loop of variant 3 moving currentTime on a day in place (setDate) after
\* the reset of its hour, while currentTime still is the timeMin object
V3StepInPlace ==
  /\ pc = "loop" /\ req.impl = "v3"
  /\ Len(availableSlots) < MAX_SUGGESTIONS_V3 /\ currentTime < timeMax
  /\ LET verdict == V3Filter(req, busyPeriods, currentTime)
     IN  /\ availableSlots' =
               IF verdict = "accept"
               THEN Append(availableSlots,
                           Slot(currentTime, currentTime + DurationMap(req.duration)))
               ELSE availableSlots
         /\ lastStep' = verdict
         /\ currentTime' = V3NextTime(req, currentTime, verdict)
         /\ timeMin' = IF verdict = "hours" /\ prevTime = None
                       THEN V3NextTime(req, currentTime, verdict)
                       ELSE timeMin
  /\ prevTime' = currentTime
  /\ UNCHANGED <<req, rerun, session, credentials, authVars, page, busyPeriods, allDayEvents, timeMax, response, pc>>

\* currentTime is the timeMin object until the first iteration assigns a new
\* Date to it: a setUTCHours on it in that iteration also changes timeMin
V3Step ==
  /\ pc = "loop" /\ req.impl = "v3"
  /\ Len(availableSlots) < MAX_SUGGESTIONS_V3 /\ currentTime < timeMax
  /\ LET verdict == V3Filter(req, busyPeriods, currentTime)
         startHourUTC == localToUTCHour(BUSINESS_START_HOUR, req.userTz, req.serverTz)
     IN  /\ availableSlots' =
               IF verdict = "accept"
               THEN Append(availableSlots,
                           Slot(currentTime, currentTime + DurationMap(req.duration)))
               ELSE availableSlots
         /\ lastStep' = verdict
         /\ currentTime' = V3NextTime(req, currentTime, verdict)
         /\ timeMin' = IF verdict = "hours" /\ prevTime = None
                       THEN setUTCHours0(currentTime, startHourUTC)
                       ELSE timeMin
  /\ prevTime' = currentTime
  /\ UNCHANGED <<req, rerun, session, credentials, authVars, page, busyPeriods, allDayEvents, timeMax, response, pc>>

V3Done ==
  /\ pc = "loop" /\ req.impl = "v3"
  /\ ~(Len(availableSlots) < MAX_SUGGESTIONS_V3 /\ currentTime < timeMax)
  /\ response' = [status |-> 200, suggestions |-> availableSlots]
  /\ pc' = "done"
  /\ UNCHANGED <<req, rerun, session, credentials, authVars, page, busyPeriods, allDayEvents, timeMin, timeMax, currentTime, prevTime,
                 lastStep, availableSlots>>

(***************************************************************************)
(* Variant 4 (route.js 669-858): step search with day jumps.               *)
(***************************************************************************)
MAX_SUGGESTIONS_V4 == 10

V4isWithinBusinessHours(date, tz) ==
  getHours(date, tz) >= BUSINESS_START_HOUR /\ getHours(date, tz) < BUSINESS_END_HOUR

RECURSIVE V4SkipDays(_, _)
\* while (isWeekend(nextDay)) nextDay = addDays(nextDay, 1)
V4SkipDays(nextDay, tz) ==
  IF isWeekend(nextDay, tz) THEN V4SkipDays(addDays(nextDay, 1), tz) ELSE nextDay

V4getNextBusinessDayStart(date, tz) ==
  LET day0 == startOfDay(date, tz)
      nextDay == IF getHours(date, tz) >= BUSINESS_END_HOUR THEN addDays(day0, 1) ELSE day0
  IN  setHoursMinutes0(V4SkipDays(nextDay, tz), BUSINESS_START_HOUR, tz)

V4Filter(r, busy, t) ==
  LET slotEnd == addMinutes(t, r.duration)
  IN  IF ~V4isWithinBusinessHours(t, r.serverTz) THEN "hours"
      ELSE IF isWeekend(t, r.serverTz) THEN "weekend"
      ELSE IF \E i \in 1..Len(busy) : V2Conflict(t, slotEnd, busy[i]) THEN "busy"
      ELSE "accept"

V4NextTime(r, t, verdict) ==
  IF verdict \in {"hours", "weekend"}
  THEN V4getNextBusinessDayStart(addDays(t, 1), r.serverTz)
  ELSE addMinutes(t, 30)

V4Start ==
  /\ pc = "start" /\ req.impl = "v4"
  /\ HasAccessToken(session)
  /\ credentials' = setCredentials(session)
  /\ timeMin' = V4getNextBusinessDayStart(req.now, req.serverTz)
  /\ timeMax' = RouteTimeMax(timeMin', req.searchRange, req.serverTz)
  /\ busyPeriods' \in BusyAnswers(req)
  /\ currentTime' = timeMin'
  /\ pc' = "loop"
  /\ UNCHANGED <<req, rerun, session, authVars, page, allDayEvents, prevTime, lastStep, availableSlots, response>>

V4Step ==
  /\ pc = "loop" /\ req.impl = "v4"
  /\ Len(availableSlots) < MAX_SUGGESTIONS_V4 /\ currentTime < timeMax
  /\ LET verdict == V4Filter(req, busyPeriods, currentTime)
     IN  /\ availableSlots' =
               IF verdict = "accept"
               THEN Append(availableSlots, Slot(currentTime, addMinutes(currentTime, req.duration)))
               ELSE availableSlots
         /\ lastStep' = verdict
         /\ currentTime' = V4NextTime(req, currentTime, verdict)
  /\ prevTime' = currentTime
  /\ UNCHANGED <<req, rerun, session, credentials, authVars, page, busyPeriods, allDayEvents, timeMin, timeMax, response, pc>>

V4Done ==
  /\ pc = "loop" /\ req.impl = "v4"
  /\ ~(Len(availableSlots) < MAX_SUGGESTIONS_V4 /\ currentTime < timeMax)
  /\ response' = [status |-> 200, suggestions |-> availableSlots]
  /\ pc' = "done"
  /\ UNCHANGED <<req, rerun, session, credentials, authVars, page, busyPeriods, allDayEvents, timeMin, timeMax, currentTime, prevTime,
                 lastStep, availableSlots>>

(***************************************************************************)
(* Variant 5 (route.js 860-1091): window from today's opening hour.        *)
(***************************************************************************)
MAX_SUGGESTIONS_V5 == 5

\* Date.prototype.toISOString(): 'YYYY-MM-DDTHH:mm:ss.sssZ', the instant printed
\* with its milliseconds
toISOString(t) == [instant |-> t, millis |-> TRUE]

\* The entry '2024-12-25T06:00:00Z' of the list, printed without milliseconds;
\* the other entries lie before the modelled weeks
US_HOLIDAYS_2024 == {[instant |-> 2 * 1440 + 360, millis |-> FALSE]}

getBusinessHoursUTC(date, isStart, tz) ==
  setHours0(date, IF isStart THEN BUSINESS_START_HOUR ELSE BUSINESS_END_HOUR, tz)

V5TimeMax(now, range, tz) ==
  CASE range = "hour" -> getBusinessHoursUTC(addDays(now, 1), FALSE, tz)
    [] range = "week" -> getBusinessHoursUTC(addWeeks(now, 1), FALSE, tz)
    [] range = "month" -> getBusinessHoursUTC(addMonths(now, 1, tz), FALSE, tz)
    [] OTHER -> getBusinessHoursUTC(addDays(now, 1), FALSE, tz)

V5Filter(r, busy, t) ==
  LET slotEnd == t + DurationMap(r.duration)
      localHour == getHours(t, r.serverTz)
  IN  IF localHour < BUSINESS_START_HOUR \/ localHour >= BUSINESS_END_HOUR THEN "hours"
      ELSE IF isWeekend(t, r.serverTz) THEN "weekend"
      ELSE IF toISOString(t) \in US_HOLIDAYS_2024 THEN "holiday"
      ELSE IF r.noFridays /\ getDay(t, r.serverTz) = 5 THEN "friday"
      ELSE IF \E i \in 1..Len(busy) : V3Conflict(t, slotEnd, busy[i]) THEN "busy"
      ELSE "accept"

V5NextTime(r, t, verdict) ==
  LET tz == r.serverTz
  IN  CASE verdict = "hours" -> addDays(setHours0(t, BUSINESS_START_HOUR, tz), 1)
        [] verdict = "weekend" ->
             setHours0(addDays(t, IF getDay(t, tz) = 6 THEN 2 ELSE 1), BUSINESS_START_HOUR, tz)
        [] verdict = "holiday" -> setHours0(addDays(t, 1), BUSINESS_START_HOUR, tz)
        [] verdict = "friday" -> setHours0(addDays(t, 3), BUSINESS_START_HOUR, tz)
        [] OTHER -> t + DurationMap(r.duration)

V5Start ==
  /\ pc = "start" /\ req.impl = "v5"
  /\ HasAccessToken(session)
  /\ credentials' = setCredentials(session)
  /\ timeMin' = getBusinessHoursUTC(req.now, TRUE, req.serverTz)
  /\ timeMax' = V5TimeMax(req.now, req.searchRange, req.serverTz)
  /\ busyPeriods' \in BusyAnswers(req)
  /\ currentTime' = timeMin'
  /\ pc' = "loop"
  /\ UNCHANGED <<req, rerun, session, authVars, page, allDayEvents, prevTime, lastStep, availableSlots, response>>

V5Step ==
  /\ pc = "loop" /\ req.impl = "v5"
  /\ Len(availableSlots) < MAX_SUGGESTIONS_V5 /\ currentTime < timeMax
  /\ LET verdict == V5Filter(req, busyPeriods, currentTime)
     IN  /\ availableSlots' =
               IF verdict = "accept"
               THEN Append(availableSlots,
                           Slot(currentTime, currentTime + DurationMap(req.duration)))
               ELSE availableSlots
         /\ lastStep' = verdict
         /\ currentTime' = V5NextTime(req, currentTime, verdict)
  /\ prevTime' = currentTime
  /\ UNCHANGED <<req, rerun, session, credentials, authVars, page, busyPeriods, allDayEvents, timeMin, timeMax, response, pc>>

V5Done ==
  /\ pc = "loop" /\ req.impl = "v5"
  /\ ~(Len(availableSlots) < MAX_SUGGESTIONS_V5 /\ currentTime < timeMax)
  /\ response' = [status |-> 200, suggestions |-> availableSlots]
  /\ pc' = "done"
  /\ UNCHANGED <<req, rerun, session, credentials, authVars, page, busyPeriods, allDayEvents, timeMin, timeMax, currentTime, prevTime,
                 lastStep, availableSlots>>

(***************************************************************************)
(* CalendarService (src/lib/calendarService).                              *)
(***************************************************************************)
\* preferredDays: Monday .. Friday, as weekday numbers (0 = Sunday)
preferredDays == {1, 2, 3, 4, 5}

\* toFormat('HH:mm') compared as strings with '09:00' and '17:00': zero-padded
\* times of day order as their minute of the day does
HHmm(t, zone) == (t + zone) % 1440

isWithinWorkingHours(t, zone) == HHmm(t, zone) >= 9 * 60 /\ HHmm(t, zone) <= 17 * 60

isPreferredDay(t, zone) == getDay(t, zone) \in preferredDays

conflictsWithBusyPeriods(start, end, busy) ==
  \E i \in 1..Len(busy) :
    \/ (start >= busy[i].start /\ start < busy[i].end)
    \/ (end > busy[i].start /\ end <= busy[i].end)

SvcFilter(r, busy, t) ==
  IF ~isWithinWorkingHours(t, r.userTz) THEN "hours"
  ELSE IF ~isPreferredDay(t, r.userTz) THEN "day"
  ELSE IF conflictsWithBusyPeriods(t, t + r.duration, busy) THEN "busy"
  ELSE "accept"

\* Scores are kept as integers: ScoreUnit parts per 1/288 of a score point, so
\* that one minute of distance costs ScoreUnit and one part is the gain of a
\* slot scored one clock reading (1/ScoreUnit minute) later.
ScoreUnit == 64 * 1
Points(p) == p * 288 * ScoreUnit

\* score = 100 - diffNow('days') * 5 (+10 at 10h and 14h, -10 at 12h, +15 on a
\* preferred day); clock is the reading of Date.now() when the slot is scored,
\* in parts after the request's now
\* a distance counted in whole weeks only
daysFromNowWholeWeeks(slot, now, clock) ==
  (((slot.start - now) * ScoreUnit - clock) \div (7 * 1440 * ScoreUnit)) * (7 * 1440 * ScoreUnit)

\* slot.start.diffNow('days').days times 5, in parts: the time from the clock
\* reading to the start of the slot
daysFromNow(slot, now, clock) == (slot.start - now) * ScoreUnit - clock

\* a score that takes nothing off at the lunch hour
calculateSlotScoreLunchNeutral(slot, zone, now, clock) ==
  LET hour == getHours(slot.start, zone)
  IN  Points(100) - daysFromNow(slot, now, clock)
      + (IF hour = 10 \/ hour = 14 THEN Points(10) ELSE 0)
      + (IF getDay(slot.start, zone) \in preferredDays THEN Points(15) ELSE 0)

calculateSlotScore(slot, zone, now, clock) ==
  LET hour == getHours(slot.start, zone)
  IN  Points(100) - daysFromNow(slot, now, clock)
      + (IF hour = 10 \/ hour = 14 THEN Points(10) ELSE 0)
      - (IF hour = 12 THEN Points(10) ELSE 0)
      + (IF getDay(slot.start, zone) \in preferredDays THEN Points(15) ELSE 0)

\* a sort that puts a slot before the slots of equal score already placed
SortInsertBeforeEqual(sorted, x) ==
  LET k == Cardinality({i \in 1..Len(sorted) : sorted[i].score > x.score})
  IN  SubSeq(sorted, 1, k) \o <<x>> \o SubSeq(sorted, k + 1, Len(sorted))

\* Array.prototype.sort((a, b) => b.score - a.score): stable, descending score
SortInsert(sorted, x) ==
  LET k == Cardinality({i \in 1..Len(sorted) : sorted[i].score >= x.score})
  IN  SubSeq(sorted, 1, k) \o <<x>> \o SubSeq(sorted, k + 1, Len(sorted))

RECURSIVE SortByScore(_)
SortByScore(s) ==
  IF s = << >> THEN << >>
  ELSE SortInsert(SortByScore(SubSeq(s, 1, Len(s) - 1)), s[Len(s)])

\* clocks[i] is the clock reading at which slots[i] is scored
scoreAndSortSlots(slots, zone, now, clocks) ==
  LET scored == [i \in 1..Len(slots) |->
                   [start |-> slots[i].start, end |-> slots[i].end,
                    score |-> calculateSlotScore(slots[i], zone, now, clocks[i])]]
      sorted == SortByScore(scored)
  IN  SubSeq(sorted, 1, Min(5, Len(sorted)))

\* Clock readings of n successive calls: the clock stands still or advances by
\* one part between two calls
ClockRuns(n) ==
  { [i \in 1..n |-> Cardinality({j \in 1..i : j \in S})] : S \in SUBSET (1..n) }

\* For a whole search: the clock stands still, or advances at every call
ClockRunsOfSearch(n) == { [i \in 1..n |-> 0], [i \in 1..n |-> i] }

SvcStart ==
  /\ pc = "start" /\ req.impl = "svc"
  /\ timeMin' = req.now
  /\ timeMax' = addDays(req.now, req.daysToCheck)
  /\ busyPeriods' \in BusyAnswers(req)
  /\ currentTime' = req.now
  /\ pc' = "loop"
  /\ UNCHANGED <<req, rerun, session, credentials, authVars, page, allDayEvents, prevTime, lastStep, availableSlots, response>>

SvcStep ==
  /\ pc = "loop" /\ req.impl = "svc"
  /\ currentTime < timeMax
  /\ LET verdict == SvcFilter(req, busyPeriods, currentTime)
     IN  /\ availableSlots' =
               IF verdict = "accept"
               THEN Append(availableSlots, Slot(currentTime, currentTime + req.duration))
               ELSE availableSlots
         /\ lastStep' = verdict
  /\ prevTime' = currentTime
  /\ currentTime' = currentTime + 30
  /\ UNCHANGED <<req, rerun, session, credentials, authVars, page, busyPeriods, allDayEvents, timeMin, timeMax, response, pc>>

SvcDone ==
  /\ pc = "loop" /\ req.impl = "svc"
  /\ ~(currentTime < timeMax)
  /\ \E clocks \in ClockRunsOfSearch(Len(availableSlots)) :
       response' = [status |-> 200,
                    suggestions |-> scoreAndSortSlots(availableSlots, req.userTz, req.now, clocks)]
  /\ pc' = "done"
  /\ UNCHANGED <<req, rerun, session, credentials, authVars, page, busyPeriods, allDayEvents, timeMin, timeMax, currentTime, prevTime,
                 lastStep, availableSlots>>

(***************************************************************************)
(* scoreAndSortSlots called on a list of the caller's choosing.            *)
(***************************************************************************)
\* Starts of the slots, wall clock: Mon 10:00, Mon 11:00, Mon 12:00, Sat 10:00
\* and the Tuesday three days after it 10:00
SortStarts == {600, 660, 720, 5 * 1440 + 600, 8 * 1440 + 600}

SortInputs(r) ==
  { s \in UNION { [1..n -> {Slot(w - r.userTz, w - r.userTz + r.duration) : w \in SortStarts}] :
                  n \in 0..MaxSortLen } :
      \A i, j \in 1..Len(s) : i # j => s[i] # s[j] }

SortCall ==
  /\ pc = "start" /\ req.impl = "sort"
  /\ \E slots \in SortInputs(req) :
       \E clocks \in ClockRuns(Len(slots)) :
         /\ availableSlots' = slots
         /\ response' = [status |-> 200,
                         suggestions |-> scoreAndSortSlots(slots, req.userTz, req.now, clocks)]
  /\ pc' = "done"
  /\ UNCHANGED <<req, rerun, session, credentials, authVars, page, busyPeriods, allDayEvents, timeMin, timeMax, currentTime, prevTime,
                 lastStep>>

\* A second call of scoreAndSortSlots with the list of the first call, at its
\* own clock readings (d parts later than the first call's now)
SortAgain ==
  /\ pc = "done" /\ req.impl = "sort" /\ ~rerun.ran
  /\ \E clocks \in ClockRuns(Len(availableSlots)) : \E d \in {0, 1} :
       rerun' = [ran |-> TRUE,
                 suggestions |->
                   scoreAndSortSlots(availableSlots, req.userTz, req.now,
                                     [i \in 1..Len(availableSlots) |-> clocks[i] + d])]
  /\ UNCHANGED <<req, session, credentials, authVars, page, busyPeriods, allDayEvents, timeMin, timeMax, currentTime, prevTime,
                 lastStep, availableSlots, response, pc>>

(***************************************************************************)
(* The handlers without an access token, the auth callbacks, the page.     *)
(***************************************************************************)
searchVars == <<busyPeriods, allDayEvents, timeMin, timeMax, currentTime, prevTime,
                lastStep, availableSlots, rerun>>

\* the route in use: if (!session?.accessToken) return the 401 answer, before the body
\* is read
RouteUnauthorized ==
  /\ pc = "start" /\ req.impl = "route"
  /\ ~HasAccessToken(session)
  /\ response' = [status |-> 401, error |-> "Unauthorized - No access token"]
  /\ pc' = "unauthorized"
  /\ UNCHANGED <<req, session, credentials, authVars, page, searchVars>>

\* variant 2: if (!session?.accessToken) return the 401 answer, before the body
\* is read
V2Unauthorized ==
  /\ pc = "start" /\ req.impl = "v2"
  /\ ~HasAccessToken(session)
  /\ response' = [status |-> 401, error |-> "Unauthorized - No access token"]
  /\ pc' = "unauthorized"
  /\ UNCHANGED <<req, session, credentials, authVars, page, searchVars>>

\* variant 3: if (!session?.accessToken) return the 401 answer, before the body
\* is read
V3Unauthorized ==
  /\ pc = "start" /\ req.impl = "v3"
  /\ ~HasAccessToken(session)
  /\ response' = [status |-> 401, error |-> "Unauthorized"]
  /\ pc' = "unauthorized"
  /\ UNCHANGED <<req, session, credentials, authVars, page, searchVars>>

\* variant 4: if (!session?.accessToken) return the 401 answer, before the body
\* is read
V4Unauthorized ==
  /\ pc = "start" /\ req.impl = "v4"
  /\ ~HasAccessToken(session)
  /\ response' = [status |-> 401, error |-> "Unauthorized"]
  /\ pc' = "unauthorized"
  /\ UNCHANGED <<req, session, credentials, authVars, page, searchVars>>

\* variant 5: if (!session?.accessToken) return the 401 answer, before the body
\* is read
V5Unauthorized ==
  /\ pc = "start" /\ req.impl = "v5"
  /\ ~HasAccessToken(session)
  /\ response' = [status |-> 401, error |-> "Unauthorized"]
  /\ pc' = "unauthorized"
  /\ UNCHANGED <<req, session, credentials, authVars, page, searchVars>>

\* One call of the jwt callback of route.js: with the account at sign-in,
\* without it later
JwtCallback ==
  /\ req.impl = "nextauth"
  /\ \E account \in (IF pc = "start" THEN Accounts(authNow) ELSE {Null}) :
       \E reply \in Replies :
         LET r == jwt(token, account, authNow, reply)
         IN  /\ token' = r.token
             /\ lastJwt' = [kind |-> r.kind, checked |-> r.checked, now |-> authNow,
                            reply |-> IF r.kind = "kept" THEN NoReply ELSE reply]
  /\ pc' = "signedIn"
  /\ UNCHANGED <<req, session, credentials, authNow, page, searchVars, response>>

\* One call of the jwt callback of authOptions.js: with the account at sign-in,
\* without it later
AuthOptionsJwtCallback ==
  /\ req.impl = "authOptions"
  /\ \E account \in (IF pc = "start" THEN Accounts(authNow) ELSE {Null}) :
       \E reply \in Replies :
         LET r == authOptionsJwt(token, account, authNow, reply)
         IN  /\ token' = r.token
             /\ lastJwt' = [kind |-> r.kind, checked |-> r.checked, now |-> authNow,
                            reply |-> IF r.kind = "kept" THEN NoReply ELSE reply]
  /\ pc' = "signedIn"
  /\ UNCHANGED <<req, session, credentials, authNow, page, searchVars, response>>

SessionCallback ==
  /\ req.impl = "nextauth" /\ pc = "signedIn"
  /\ session' = sessionCallback(DefaultSession, token)
  /\ UNCHANGED <<req, credentials, authVars, page, searchVars, response, pc>>

AuthOptionsSessionCallback ==
  /\ req.impl = "authOptions" /\ pc = "signedIn"
  /\ session' = authOptionsSession(DefaultSession, token)
  /\ UNCHANGED <<req, credentials, authVars, page, searchVars, response, pc>>

\* a second passes
AuthTick ==
  /\ req.impl \in AuthImpls
  /\ authNow < MaxAuthClock * 1000
  /\ authNow' = authNow + 1000
  /\ UNCHANGED <<req, session, credentials, token, lastJwt, page, searchVars, response, pc>>

\* handleSubmit is called: it returns on an empty list or awaits the fetch
HandleSubmit ==
  /\ req.impl = "page" /\ page.at \in {"idle", "returned"}
  /\ page' = handleSubmitBegin(page)
  /\ UNCHANGED <<req, session, credentials, authVars, searchVars, response, pc>>

\* the fetch settles and handleSubmit runs to its end
HandleSubmitSettle ==
  /\ req.impl = "page" /\ page.at = "awaiting"
  /\ \E outcome \in FetchOutcomes : page' = handleSubmitRest(page, outcome)
  /\ UNCHANGED <<req, session, credentials, authVars, searchVars, response, pc>>

(***************************************************************************)
(* What the searches have in common, for stating properties of all of them. *)
(***************************************************************************)
SearchImpls == Impls \ {"sort"}

\* the end of the candidate that starts at t
SlotEnd(r, t) ==
  CASE r.impl = "v2" -> calculateEndDate(t, r.duration, r.serverTz)
    [] r.impl \in {"v3", "v5"} -> t + DurationMap(r.duration)
    [] r.impl = "v4" -> addMinutes(t, r.duration)
    [] OTHER -> t + r.duration

\* the verdict of the variant's filter chain on the candidate that starts at t
Filter(r, busy, events, t) ==
  CASE r.impl = "route" -> RouteFilter(r, busy, t)
    [] r.impl = "v1" -> V1Filter(r, busy, events, t)
    [] r.impl = "v2" -> V2Filter(r, busy, events, t)
    [] r.impl = "v3" -> V3Filter(r, busy, t)
    [] r.impl = "v4" -> V4Filter(r, busy, t)
    [] r.impl = "v5" -> V5Filter(r, busy, t)
    [] OTHER -> SvcFilter(r, busy, t)

\* the distance between two candidates when no check asks for a jump
StepOf(r) ==
  CASE r.impl \in {"v3", "v5"} -> DurationMap(r.duration)
    [] r.impl = "v2" -> 1440
    [] OTHER -> 30

Next ==
  \/ RouteStart
  \/ RouteStep
  \/ RouteDone
  \/ RouteFail
  \/ V1Start
  \/ V1Step
  \/ V1Done
  \/ V2Start
  \/ V2Step
  \/ V2Done
  \/ V3Start
  \/ V3Step
  \/ V3Done
  \/ V4Start
  \/ V4Step
  \/ V4Done
  \/ V5Start
  \/ V5Step
  \/ V5Done
  \/ SvcStart
  \/ SvcStep
  \/ SvcDone
  \/ SortCall
  \/ SortAgain
  \/ RouteUnauthorized
  \/ V2Unauthorized
  \/ V3Unauthorized
  \/ V4Unauthorized
  \/ V5Unauthorized
  \/ JwtCallback
  \/ AuthOptionsJwtCallback
  \/ SessionCallback
  \/ AuthOptionsSessionCallback
  \/ AuthTick
  \/ HandleSubmit
  \/ HandleSubmitSettle

Spec == Init /\ [][Next]_vars

\* The fetch of the page settles (the browser resolves or rejects its promise)
\* and the rest of handleSubmit is then run
FairSpec == Spec /\ WF_vars(HandleSubmitSettle)


(***************************************************************************)
(* Properties.                                                             *)
(***************************************************************************)
\* the local calendar day and weekday of an instant, and the holiday of the
\* modelled weeks (Wednesday 2024-12-25) as a local day
LocalDay(t, zone) == (t + zone) \div 1440
LocalWeekday(t, zone) == (LocalDay(t, zone) + 1) % 7
HolidayDays == {2}

\* the overlap of the specification: the slot start lies inside the busy
\* period, or the slot end does, or the slot contains the busy period
Overlaps(s, e, busy) ==
  \/ (s >= busy.start /\ s < busy.end)
  \/ (e > busy.start /\ e <= busy.end)
  \/ (s <= busy.start /\ e >= busy.end)

\* C1: every slot a search returns overlaps none of the busy periods it was
\* given (start inside, end inside, or containing the busy period).
C1_NoReturnedSlotOverlapsBusy ==
  (pc = "done" /\ req.impl \in SearchImpls) =>
    \A i \in 1..Len(availableSlots) : \A j \in 1..Len(busyPeriods) :
      ~Overlaps(availableSlots[i].start, availableSlots[i].end, busyPeriods[j])

\* C2: every slot a search returns starts at or after 09:00 and ends at or
\* before 17:00 of the same day, in the user's local time; in particular no
\* 60-minute slot that starts at 16:30 is returned.
C2_ReturnedSlotsWithinBusinessHours ==
  (pc = "done" /\ req.impl \in SearchImpls) =>
    \A i \in 1..Len(availableSlots) :
      LET s == availableSlots[i].start + req.userTz
          e == availableSlots[i].end + req.userTz
      IN  /\ s % 1440 >= 9 * 60
          /\ e <= (s \div 1440) * 1440 + 17 * 60

\* C3: no slot a search returns starts, in local time, on a Saturday, a
\* Sunday, a holiday or, with noFridays, a Friday.
C3_NoSlotOnExcludedDay ==
  (pc = "done" /\ req.impl \in SearchImpls) =>
    \A i \in 1..Len(availableSlots) :
      LET t == availableSlots[i].start
      IN  /\ LocalWeekday(t, req.userTz) \notin {0, 6}
          /\ LocalDay(t, req.userTz) \notin HolidayDays
          /\ ~(req.noFridays /\ LocalWeekday(t, req.userTz) = 5)

\* C4: every candidate a search keeps is exactly as long as the requested
\* duration in minutes.
C4_SlotLengthIsRequestedDuration ==
  req.impl \in SearchImpls =>
    \A i \in 1..Len(availableSlots) :
      availableSlots[i].end - availableSlots[i].start = req.duration

\* C5: the busy check is half-open: a candidate is rejected as busy only when
\* it overlaps a busy period, so a candidate that merely touches one (its end
\* at the busy start, or its start at the busy end) is not rejected.
C5_BusyRejectionOnlyOnOverlap ==
  (req.impl \in SearchImpls /\ pc \in {"loop", "done"} /\ lastStep = "busy") =>
    \E j \in 1..Len(busyPeriods) :
      Overlaps(prevTime, SlotEnd(req, prevTime), busyPeriods[j])

\* C6: every iteration of the search loop leaves currentTime strictly later
\* than it found it, so the loop reaches timeMax or the result cap.
C6_EachIterationAdvances ==
  (req.impl \in SearchImpls /\ pc \in {"loop", "done"} /\ prevTime # None) =>
    prevTime < currentTime

\* the candidates of the step grid that a jump from prevTime to currentTime
\* passed over although the filter accepts them
SkippedCandidates ==
  { t \in { prevTime + k * StepOf(req) : k \in 1..((currentTime - prevTime) \div StepOf(req)) } :
      t < currentTime /\ t < timeMax /\ Filter(req, busyPeriods, allDayEvents, t) = "accept" }

\* C7: when the loop moves currentTime on after rejecting a candidate, no
\* candidate that the step-by-step search would have accepted lies before
\* the new currentTime.
C7_FastForwardSkipsNoValidCandidate ==
  (req.impl \in SearchImpls /\ pc \in {"loop", "done"} /\ prevTime # None
     /\ lastStep # "accept" /\ prevTime < currentTime) =>
    SkippedCandidates = {}

IsBusinessDay(d) == ((d + 1) % 7) \notin {0, 6} /\ d \notin HolidayDays

RECURSIVE NextBusinessDay(_)
NextBusinessDay(d) == IF IsBusinessDay(d) THEN d ELSE NextBusinessDay(d + 1)

\* the earliest instant at or after now that lies on a business day within
\* business hours, in the zone given
NextBusinessInstant(now, zone) ==
  LET d == LocalDay(now, zone)
      m == (now + zone) % 1440
  IN  IF IsBusinessDay(d) /\ m >= 9 * 60 /\ m < 17 * 60 THEN now
      ELSE IF IsBusinessDay(d) /\ m < 9 * 60 THEN d * 1440 + 9 * 60 - zone
      ELSE NextBusinessDay(d + 1) * 1440 + 9 * 60 - zone

\* C8: timeMin is never earlier than now, and it is the earliest instant at
\* or after now on a business day within business hours (the same day's
\* opening hour when now is before opening on a business day).
C8_TimeMinIsNextBusinessInstant ==
  (req.impl \in SearchImpls /\ pc # "start") =>
    /\ timeMin >= req.now
    /\ timeMin = NextBusinessInstant(req.now, RefTz(req))

\* C9: a search returns at most 5 slots.
C9_AtMostFiveSlots ==
  pc = "done" => Len(response.suggestions) <= 5

InputIndex(s) == CHOOSE k \in 1..Len(availableSlots) : availableSlots[k].start = s.start

SlotsOf(list) == [i \in 1..Len(list) |-> Slot(list[i].start, list[i].end)]

\* C11: two calls of scoreAndSortSlots on the same list of slots with the same
\* preferences return the slots in the same order, whatever the clock reads
\* when each slot is scored.
C11_RankingIndependentOfClock ==
  (pc = "done" /\ req.impl = "sort" /\ rerun.ran) =>
    SlotsOf(rerun.suggestions) = SlotsOf(response.suggestions)

\* C12: the search end is the search start plus the requested horizon: one
\* calendar day for 'day', one calendar week for 'week', one calendar month
\* for 'month'.
C12_TimeMaxIsTimeMinPlusHorizon ==
  (req.impl \in {"route", "v1", "v2", "v3", "v4", "v5"} /\ pc \in {"loop", "done"}) =>
    /\ (req.searchRange = "day" => timeMax = addDays(timeMin, 1))
    /\ (req.searchRange = "week" => timeMax = addWeeks(timeMin, 1))
    /\ (req.searchRange = "month" => timeMax = addMonths(timeMin, 1, req.serverTz))

\* C13: a candidate that starts at or after 09:00 and ends exactly at 17:00
\* of the same day, in the user's local time, passes the business-hours
\* check.
C13_SlotEndingAtClosingPassesHours ==
  (req.impl \in SearchImpls /\ pc \in {"loop", "done"} /\ prevTime # None
     /\ (prevTime + req.userTz) % 1440 >= 9 * 60
     /\ SlotEnd(req, prevTime) + req.userTz
          = LocalDay(prevTime, req.userTz) * 1440 + 17 * 60) =>
    lastStep # "hours"

\* a day the search may offer: a business day that is no excluded Friday
IsCandidateDay(d, r) == IsBusinessDay(d) /\ ~(r.noFridays /\ (d + 1) % 7 = 5)

RECURSIVE NextCandidateDay(_, _)
NextCandidateDay(d, r) == IF IsCandidateDay(d, r) THEN d ELSE NextCandidateDay(d + 1, r)

\* the opening hour of the next candidate business day after the instant t
NextOpening(t, r) ==
  LET z == RefTz(r)
      d == LocalDay(t, z)
      first == IF (t + z) % 1440 < 9 * 60 THEN d ELSE d + 1
  IN  NextCandidateDay(first, r) * 1440 + 9 * 60 - z

\* C14: after a rejection for business hours, weekend, holiday or excluded
\* weekday the next candidate examined is the opening hour of the next
\* candidate business day; after a rejection for busy overlap it is exactly
\* one step after the rejected candidate.
C14_NextCandidateAfterRejection ==
  (req.impl \in SearchImpls /\ pc \in {"loop", "done"} /\ prevTime # None) =>
    /\ (lastStep \in {"hours", "weekend", "holiday", "friday", "day"}
          => currentTime = NextOpening(prevTime, req))
    /\ (lastStep = "busy" => currentTime = prevTime + StepOf(req))

\* C15: two candidates examined one after the other on the same local day
\* are exactly 30 minutes apart, whatever the requested duration.
C15_CandidatesAreOneStepApart ==
  (req.impl \in SearchImpls /\ pc \in {"loop", "done"} /\ prevTime # None
     /\ LocalDay(prevTime, RefTz(req)) = LocalDay(currentTime, RefTz(req))) =>
    currentTime = prevTime + 30

\* the candidates of the 30-minute grid from timeMin, before timeMax, that the
\* filter chain accepts
ValidOnGrid ==
  { t \in { timeMin + 30 * k : k \in 0..((timeMax - timeMin) \div 30) } :
      t < timeMax /\ Filter(req, busyPeriods, allDayEvents, t) = "accept" }

ReturnedStarts == { response.suggestions[i].start : i \in 1..Len(response.suggestions) }

\* C16: the suggestions of the route's step search (the route in use and
\* variant 1) are in strictly ascending start order, every start lies in
\* [timeMin, timeMax), and they are exactly the earliest candidates of the
\* step grid from timeMin that pass every filter, all of them unless the
\* result cap was reached.
C16_SuggestionsAreEarliestValidCandidates ==
  (pc = "done" /\ req.impl \in {"route", "v1"} /\ response.status = 200) =>
    /\ \A i, j \in 1..Len(response.suggestions) :
         i < j => response.suggestions[i].start < response.suggestions[j].start
    /\ \A t \in ReturnedStarts : timeMin <= t /\ t < timeMax
    /\ ReturnedStarts \subseteq ValidOnGrid
    /\ \A t \in ValidOnGrid \ ReturnedStarts :
         /\ \A u \in ReturnedStarts : u < t
         /\ Len(response.suggestions) = 10

\* the search has returned slots and has passed over a rejected candidate
\* that lies between two of them
C16_ReturnedAroundRejectedCandidate ==
  /\ pc = "done" /\ req.impl \in {"route", "v1"} /\ response.status = 200
  /\ busyPeriods # << >>
  /\ \E i \in 1..(Len(response.suggestions) - 1) :
       response.suggestions[i + 1].start > response.suggestions[i].start + 30

\* C17: a search of the route in which no candidate passes the filters ends
\* with status 200 and an empty suggestions list; a failure ends with status
\* 500 and an error; no response with an error carries suggestions and no
\* response with suggestions carries an error.
C17_EmptyResultIsNotAFailure ==
  req.impl = "route" =>
    /\ (pc = "done" =>
          /\ response.status = 200
          /\ DOMAIN response = {"status", "suggestions"}
          /\ (availableSlots = << >> => response.suggestions = << >>))
    /\ (pc = "failed" =>
          /\ response.status = 500
          /\ DOMAIN response = {"status", "error"})

\* a search of the route has ended without any accepted candidate
C17_SearchEndedEmpty ==
  /\ pc = "done" /\ req.impl = "route"
  /\ availableSlots = << >>
  /\ prevTime # None
  /\ response.status = 200

\* C18: a request whose duration is zero or negative never ends with a
\* successful response carrying suggestions.
C18_InvalidDurationYieldsNoSuggestions ==
  (req.impl \in SearchImpls /\ req.duration <= 0) => pc # "done"

\* C20: no iteration of a search loop changes the value of timeMin or of
\* timeMax, the iterations that reset the hour of currentTime in place
\* included.
C20_WindowUnchangedByLoop ==
  [][(pc = "loop" /\ req.impl \in SearchImpls) => (timeMin' = timeMin /\ timeMax' = timeMax)]_vars

\* the first iteration of variant 3 has reset the hour of currentTime in
\* place while currentTime was the timeMin object
C20_HourResetOnWindowStart ==
  /\ req.impl = "v3" /\ pc = "loop"
  /\ lastStep = "hours"
  /\ prevTime = timeMin


\* the lists the service has scored: the answer of a finished call
ScoredList ==
  IF pc = "done" /\ req.impl \in {"svc", "sort"} THEN response.suggestions ELSE << >>

\* same hour of day and same weekday status (on a preferred day or not)
SameHourAndDayStatus(a, b) ==
  /\ getHours(a.start, req.userTz) = getHours(b.start, req.userTz)
  /\ (getDay(a.start, req.userTz) \in preferredDays)
       = (getDay(b.start, req.userTz) \in preferredDays)

\* C21: of two scored slots with the same hour of day and the same weekday
\* status, the one that starts further from the search start has the strictly
\* lower score
C21_FurtherSlotScoresLower ==
  \A i, j \in 1..Len(ScoredList) :
    (SameHourAndDayStatus(ScoredList[i], ScoredList[j])
       /\ ScoredList[i].start < ScoredList[j].start)
      => ScoredList[i].score > ScoredList[j].score

\* a scored list holds two slots at the same hour on preferred days one week
\* and a day apart
C21_SameHourDaysApart ==
  \E i, j \in 1..Len(ScoredList) :
    /\ SameHourAndDayStatus(ScoredList[i], ScoredList[j])
    /\ ScoredList[j].start - ScoredList[i].start = 8 * 1440
    /\ ScoredList[i].score > ScoredList[j].score


\* The score of a scored slot with the cost of its distance from the search
\* start added back: what two slots that differ in nothing but the hour differ by
ScoreAtSearchStart(e) == e.score + (e.start - req.now) * ScoreUnit

Abs(x) == IF x < 0 THEN 0 - x ELSE x

\* C22: compared with a slot at a neutral hour on a day of the same status and
\* at the same distance, a slot at 10h or 14h scores ten points more and a slot
\* at 12h ten points less (within what the clock advances between two
\* scorings, less than a minute of distance)
C22_HourBonusAndLunchPenalty ==
  \A i, j \in 1..Len(ScoredList) :
    LET a == ScoredList[i]
        b == ScoredList[j]
        hourA == getHours(a.start, req.userTz)
        hourB == getHours(b.start, req.userTz)
        gain == ScoreAtSearchStart(b) - ScoreAtSearchStart(a)
    IN  (hourA \notin {10, 12, 14}
           /\ (getDay(a.start, req.userTz) \in preferredDays)
                = (getDay(b.start, req.userTz) \in preferredDays))
          => /\ hourB \in {10, 14} => Abs(gain - Points(10)) < ScoreUnit
             /\ hourB = 12 => Abs(gain + Points(10)) < ScoreUnit

\* a scored list holds a slot at a neutral hour, one at 10h and one at 12h of
\* the same day, scored at the same clock reading
C22_NeutralBonusAndLunchScored ==
  \E i, j, k \in 1..Len(ScoredList) :
    /\ getHours(ScoredList[i].start, req.userTz) = 11
    /\ getHours(ScoredList[j].start, req.userTz) = 10
    /\ getHours(ScoredList[k].start, req.userTz) = 12
    /\ isSameDay(ScoredList[i].start, ScoredList[j].start, req.userTz)
    /\ isSameDay(ScoredList[i].start, ScoredList[k].start, req.userTz)
    /\ ScoreAtSearchStart(ScoredList[j]) - ScoreAtSearchStart(ScoredList[i]) = Points(10)
    /\ ScoreAtSearchStart(ScoredList[k]) - ScoreAtSearchStart(ScoredList[i]) = 0 - Points(10)


\* C23: among the scored slots of one day, a slot that starts between 09:00
\* and 11:00 never scores lower than a slot that starts later that day
C23_MorningSlotsScoreHighest ==
  \A i, j \in 1..Len(ScoredList) :
    LET a == ScoredList[i]
        b == ScoredList[j]
    IN  (HHmm(a.start, req.userTz) >= 9 * 60 /\ HHmm(a.start, req.userTz) < 11 * 60
           /\ isSameDay(a.start, b.start, req.userTz) /\ a.start < b.start)
          => a.score >= b.score


\* C24: of two scored slots at the same hour on two weekdays (Monday to
\* Friday), the one on the earlier weekday has the larger score once the cost
\* of the distance from the search start is added back (larger by more than
\* the clock advances between two scorings)
C24_EarlierWeekdayScoresHigher ==
  \A i, j \in 1..Len(ScoredList) :
    LET a == ScoredList[i]
        b == ScoredList[j]
    IN  (getHours(a.start, req.userTz) = getHours(b.start, req.userTz)
           /\ getDay(a.start, req.userTz) \in preferredDays
           /\ getDay(b.start, req.userTz) \in preferredDays
           /\ getDay(a.start, req.userTz) < getDay(b.start, req.userTz))
          => ScoreAtSearchStart(a) - ScoreAtSearchStart(b) >= ScoreUnit


\* C25: a handler whose session has no access token answers 401 and goes no
\* further: no credentials are set, no free/busy query is made (the window
\* and the busy periods stay unset), no candidate is tried
C25_NoAccessTokenAnswers401 ==
  (req.impl \in CheckedImpls /\ ~HasAccessToken(session))
    => /\ pc \in {"start", "unauthorized"}
       /\ pc = "unauthorized" => response.status = 401 /\ "suggestions" \notin DOMAIN response
       /\ credentials = [unset |-> TRUE]
       /\ timeMin = None /\ timeMax = None /\ busyPeriods = << >>
       /\ currentTime = None /\ lastStep = "none" /\ availableSlots = << >>

\* the route in use has answered a request whose session carries no access
\* token
C25_RouteAnswered401 ==
  /\ req.impl = "route" /\ pc = "unauthorized"
  /\ session = sessionCallback(DefaultSession, NewToken)
  /\ response = [status |-> 401, error |-> "Unauthorized - No access token"]


\* the jwt call recorded last went to the token endpoint
RefreshTried == req.impl \in AuthImpls /\ lastJwt.kind \in {"refreshed", "failed", "threw"}

C27_SuccessfulRefreshClearsError ==
  (req.impl \in AuthImpls /\ lastJwt.kind = "refreshed") => token.error = Undefined

\* C28: a successful refresh whose reply has no refresh token leaves the stored
\* one as it was, one whose reply has a refresh token stores that one, and no
\* refresh, failed or not, turns a stored refresh token into undefined
C28_RefreshTokenKeptOrReplaced ==
  RefreshTried
    => /\ (lastJwt.kind = "refreshed" /\ lastJwt.reply.refresh_token = Undefined)
            => token.refreshToken = lastJwt.checked.refreshToken
       /\ (lastJwt.kind = "refreshed" /\ lastJwt.reply.refresh_token # Undefined)
            => token.refreshToken = lastJwt.reply.refresh_token
       /\ lastJwt.kind = "failed" => token.refreshToken = lastJwt.checked.refreshToken
       /\ lastJwt.checked.refreshToken # Undefined => token.refreshToken # Undefined

\* a refresh has succeeded on a reply without a refresh token and the token
\* still holds the refresh token of the sign-in, with the new access token
C28_RefreshedWithoutNewRefreshToken ==
  /\ req.impl = "nextauth" /\ lastJwt.kind = "refreshed"
  /\ lastJwt.reply.refresh_token = Undefined
  /\ token.refreshToken = "rt0" /\ token.accessToken = "at1"

\* C29: no session carries a refresh token, so the refresh_token a handler
\* gives to setCredentials is undefined on every request
C29_SessionHasNoRefreshToken ==
  /\ "refreshToken" \notin DOMAIN session
  /\ "refresh_token" \in DOMAIN credentials => credentials.refresh_token = Undefined

\* the route in use ran with the session built from a token that holds a
\* refresh token, and gave setCredentials the access token and no refresh token
C29_CredentialsWithoutRefreshToken ==
  /\ req.impl = "route" /\ pc = "loop"
  /\ SignedInToken.refreshToken = "rt0"
  /\ session = sessionCallback(DefaultSession, SignedInToken)
  /\ credentials = [access_token |-> "at0", refresh_token |-> Undefined]


\* what every returned call of handleSubmit leaves: loading is false; a call
\* that found no address left its message and fetched nothing, and a call
\* fetched nothing only if it found no address
SubmitReturnedWell ==
  page.at = "returned"
    => /\ ~page.loading
       /\ (Len(emailList(page.attendees)) = 0)
            = (page.outcome = "empty" /\ ~page.fetched
                 /\ page.error = <<"Please enter at least one email address">>)
       /\ page.fetched = (page.outcome \in FetchOutcomes)

\* C30: every call of handleSubmit ends with loading reset to false, on each
\* of its paths (no address, rejected fetch, HTTP error, unparsable body, error
\* field, success); a call that finds no address sets an error message and
\* sends no request
C30_SubmitAlwaysResetsLoading ==
  /\ [](SubmitReturnedWell /\ (page.loading => page.at = "awaiting"))
  /\ (page.at = "awaiting") ~> (page.at = "returned" /\ ~page.loading)

\* a call of handleSubmit has returned after an HTTP error, with loading false
\* and the error shown
C30_ReturnedAfterHttpError ==
  /\ req.impl = "page" /\ page.at = "returned" /\ page.outcome = "httpError"
  /\ page.fetched /\ ~page.loading
  /\ page.error = <<"Error: ", "HTTP error!">>

====
